---- MODULE Spec2Model ----
(***************************************************************************)
(* Agora buzzer (1v1 duel): the session core of backend/main.py and        *)
(* backend/models.py: the buzzer state machine, the duel roster, the       *)
(* connection registry and the sliding-window rate limiter.                *)
(*                                                                         *)
(* The server is a single asyncio event loop: the code of a handler        *)
(* between two awaits runs without interleaving.  Every action below is    *)
(* one handler invocation (an admin HTTP endpoint, one websocket connect,  *)
(* one received websocket message, one disconnect clean-up) with the       *)
(* sends it performs; `sent` and `ev` record what that invocation put on   *)
(* the wire and answered.                                                  *)
(***************************************************************************)
EXTENDS Integers, Sequences, FiniteSets, TLC

VARIABLES
    session,            \* sessions["main"]: the SessionState record
    teams_db,           \* the insertion-ordered dict teams_db, as a sequence
    rl_log,             \* rate_limiter._log: client id -> list of times
    connections,        \* manager._connections["main"], insertion-ordered
    ws_tok,             \* per websocket: the verified token (sub, role)
    ws_st,              \* per websocket: where its connection task stands
    now,                \* the value time.time() returns
    ev,                 \* the invocation just run: operation, caller, outcome
    sent,               \* the messages that invocation delivered
    closing,            \* per websocket: old_ws of a connect awaiting its close
    bc,                 \* a manager.broadcast suspended on a send, or Idle
    heard               \* per websocket: the buzzer state and winner last told

vars == <<session, teams_db, rl_log, connections, ws_tok, ws_st, now, ev, sent,
          closing, bc, heard>>

(***************************************************************************)
(* Bounds of the model.                                                    *)
(***************************************************************************)
MaxTime     == 6    \* the clock runs 0..MaxTime (under SpecRL)
MaxQuestion == 2    \* enable is not called past this round number
MaxScore    == 1    \* update-score is not called past this score

(***************************************************************************)
(* Program constants.                                                      *)
(***************************************************************************)
max_events == 3     \* RateLimiter.max_events
window     == 5     \* RateLimiter.window (seconds)

None   == "None"    \* Python's None where a string may stand
NoneTs == -1        \* Python's None where a time may stand

Disabled == "disabled"
Enabled  == "enabled"
Locked   == "locked"
BuzzerState == {Disabled, Enabled, Locked}

\* The websockets of a run, and the verified tokens (create_ws_token: sub,
\* role) they present: the two participants /join issues tokens to, and the
\* screen of /screen-token.
WS == {1, 2, 3}
Caller == <<[sub |-> "gadzit",  role |-> "participant"],
            [sub |-> "phoenix", role |-> "participant"]>>
Screen == [sub |-> "screen", role |-> "screen"]

NoTok == [sub |-> None, role |-> None]
ParticipantIds == {"gadzit", "phoenix"}

\* Arguments an administrator can pass.
\* set_teams(team_a_id, team_a_name, team_b_id, team_b_name): the seeded pair
\* spelled in capitals, and two ids that differ only in case.
SetTeamsArgs == { <<"GADZIT", "GadzIT", "phoenix", "Phoenix">>,
                  <<"GADZIT", "GadzIT", "gadzit", "Gadz2">> }
Deltas     == {-2, 1}

\* str.lower() on the identifiers above.
lower(s) == CASE s = "GADZIT" -> "gadzit"
              [] OTHER        -> s

Max(a, b) == IF a >= b THEN a ELSE b

(***************************************************************************)
(* teams_db: an insertion-ordered dict team_id -> TeamInfo.                *)
(***************************************************************************)
TeamInfo(id, name) ==
    [team_id |-> id, team_name |-> name, score |-> 0, is_connected |-> FALSE]

TeamIds(db) == { db[i].team_id : i \in DOMAIN db }

\* db[key] = value: a present key keeps its place, a new one goes last.
DictSet(db, key, value) ==
    IF key \in TeamIds(db)
    THEN [i \in DOMAIN db |-> IF db[i].team_id = key THEN value ELSE db[i]]
    ELSE Append(db, value)

seed_initial_data ==
    DictSet(DictSet(<<>>, "gadzit", TeamInfo("gadzit", "GadzIT")),
            "phoenix", TeamInfo("phoenix", "Phoenix"))

(***************************************************************************)
(* RateLimiter.                                                            *)
(***************************************************************************)
\* Recent with the window's far edge kept (<=)
RecentInclusive(events, t_now) ==
    LET Keep(t) == t_now - t <= window
    IN  SelectSeq(events, Keep)

\* recent = [t for t in events if now - t < self.window]
Recent(events, t_now) ==
    LET Keep(t) == t_now - t < window
    IN  SelectSeq(events, Keep)

\* is_limited's return value, on the pruned ledger
Limited(events, t_now) == Len(Recent(events, t_now)) >= max_events

\* the ledger after is_limited alone
AfterIsLimited(log, cid, t_now) ==
    [log EXCEPT ![cid] = Recent(log[cid], t_now)]

\* AfterRecord that records nothing
RecordSkipped(log, cid, t_now) == log

\* the ledger after record
AfterRecord(log, cid, t_now) ==
    [log EXCEPT ![cid] = Append(log[cid], t_now)]

(***************************************************************************)
(* SessionState and the transitions the handlers apply to it.              *)
(***************************************************************************)
SessionState(st, winner, ts, q) ==
    [buzzer_state |-> st, buzzer_winner |-> winner,
     buzzer_timestamp |-> ts, question_number |-> q]

\* seed_initial_data: sessions["main"]
InitialSession == SessionState(Disabled, None, NoneTs, 0)

\* EnableRejected with the guard left out
EnableNeverRejected(s) == FALSE

\* enable_buzzer: the guard that answers 400 "Reset buzzer first"
EnableRejected(s) == s.buzzer_state = Locked

\* EnableEffect without the assignment to buzzer_timestamp
EnableKeepsTimestamp(s) ==
    [s EXCEPT !.buzzer_state = Enabled, !.buzzer_winner = None,
              !.question_number = s.question_number + 1]

\* enable_buzzer: the assignments after the guard
EnableEffect(s) ==
    SessionState(Enabled, None, NoneTs, s.question_number + 1)

\* disable_buzzer
DisableEffect(s) == [s EXCEPT !.buzzer_state = Disabled]

\* ResetEffect without the assignment to buzzer_timestamp
ResetKeepsTimestamp(s) ==
    [s EXCEPT !.buzzer_state = Disabled, !.buzzer_winner = None]

\* reset_buzzer
ResetEffect(s) ==
    [s EXCEPT !.buzzer_state = Disabled, !.buzzer_winner = None,
              !.buzzer_timestamp = NoneTs]

\* reset_scores: the session part
ResetScoresEffect(s) ==
    [s EXCEPT !.question_number = 0, !.buzzer_state = Disabled,
              !.buzzer_winner = None]

\* SetTeamsEffect without the assignment to buzzer_state
SetTeamsKeepsState(s) ==
    [s EXCEPT !.buzzer_winner = None, !.question_number = 0]

\* set_teams: the session part
SetTeamsEffect(s) ==
    [s EXCEPT !.buzzer_state = Disabled, !.buzzer_winner = None,
              !.question_number = 0]

\* PanicEffect that also zeroes the round counter, as reset_scores does
PanicResetsCounter(s) ==
    [s EXCEPT !.buzzer_state = Disabled, !.buzzer_winner = None,
              !.buzzer_timestamp = NoneTs, !.question_number = 0]

\* panic_button
PanicEffect(s) ==
    [s EXCEPT !.buzzer_state = Disabled, !.buzzer_winner = None,
              !.buzzer_timestamp = NoneTs]

\* SignalAccepted that only refuses a disabled buzzer
SignalAcceptedUnlessDisabled(s) == s.buzzer_state # Disabled

\* websocket_endpoint, "buzz": the state test before the lock
SignalAccepted(s) == s.buzzer_state = Enabled

\* websocket_endpoint, "buzz": the lock
LockEffect(s, client_id, ts) ==
    [s EXCEPT !.buzzer_state = Locked, !.buzzer_winner = client_id,
              !.buzzer_timestamp = ts]

(***************************************************************************)
(* Roster updates.                                                         *)
(***************************************************************************)
\* ScoreAfter without the floor
ScoreUnclamped(score, delta) == score + delta

\* update_score: team.score = max(0, team.score + req.delta)
ScoreAfter(score, delta) == Max(0, score + delta)

UpdateScoreEffect(db, team_id, delta) ==
    [i \in DOMAIN db |->
        IF db[i].team_id = team_id
        THEN [db[i] EXCEPT !.score = ScoreAfter(db[i].score, delta)]
        ELSE db[i]]

\* reset_scores: for team in teams_db.values(): team.score = 0
ZeroScores(db) == [i \in DOMAIN db |-> [db[i] EXCEPT !.score = 0]]

\* set_teams: clear, then two keyed assignments
SetTeamsRoster(a_id, a_name, b_id, b_name) ==
    DictSet(DictSet(<<>>, lower(a_id), TeamInfo(lower(a_id), a_name)),
            lower(b_id), TeamInfo(lower(b_id), b_name))

\* teams_db[client_id].is_connected = flag, when the client is a roster member
SetConnected(db, client_id, flag) ==
    [i \in DOMAIN db |->
        IF db[i].team_id = client_id
        THEN [db[i] EXCEPT !.is_connected = flag]
        ELSE db[i]]

(***************************************************************************)
(* The payloads the handlers build.                                        *)
(***************************************************************************)
\* one side of get_duel_payload: id, name, score, is_connected
Side(t) == [id |-> t.team_id, name |-> t.team_name, score |-> t.score,
            is_connected |-> t.is_connected]

\* get_duel_payload: {} when the roster has fewer than two entries, else the
\* first two in insertion order (team_a, team_b)
get_duel_payload(db) ==
    IF Len(db) < 2 THEN <<>> ELSE <<Side(db[1]), Side(db[2])>>

\* teams_db[id].team_name
TeamName(db, id) ==
    LET i == CHOOSE j \in DOMAIN db : db[j].team_id = id IN db[i].team_name

\* broadcast_state: winner_name
winner_name(s, db) ==
    IF s.buzzer_winner # None /\ s.buzzer_winner \in TeamIds(db)
    THEN TeamName(db, s.buzzer_winner) ELSE None

\* broadcast_state: the state_sync message without its type
StateSync(s, db) ==
    [buzzer_state       |-> s.buzzer_state,
     buzzer_winner      |-> s.buzzer_winner,
     buzzer_winner_name |-> winner_name(s, db),
     buzzer_timestamp   |-> s.buzzer_timestamp,
     question_number    |-> s.question_number,
     duel               |-> get_duel_payload(db)]

\* websocket_endpoint, "buzz": loser, the first roster entry that is not the
\* winner
Loser(db, client_id) ==
    LET others == { j \in DOMAIN db : db[j].team_id # client_id } IN
    IF others = {} THEN [id |-> None, name |-> None]
    ELSE LET i == CHOOSE j \in others : \A k \in others : j <= k
         IN  [id |-> db[i].team_id, name |-> db[i].team_name]

\* websocket_endpoint, "buzz": the buzzer_locked message without its type
BuzzerLocked(db, client_id, ts) ==
    [winner_id    |-> client_id,
     winner_name  |-> TeamName(db, client_id),
     loser_id     |-> Loser(db, client_id).id,
     loser_name   |-> Loser(db, client_id).name,
     timestamp    |-> ts,
     buzzer_state |-> Locked,
     duel         |-> get_duel_payload(db)]

\* websocket_endpoint: the welcome message without its type
Welcome(s, db, client_id, role) ==
    [client_id          |-> client_id,
     role               |-> role,
     buzzer_state       |-> s.buzzer_state,
     buzzer_winner      |-> s.buzzer_winner,
     buzzer_winner_name |-> winner_name(s, db),
     question_number    |-> s.question_number,
     duel               |-> get_duel_payload(db)]

\* opponent_connected / opponent_disconnected without type and team_id
Opponent(db) == [duel |-> get_duel_payload(db)]

(***************************************************************************)
(* ConnectionManager: the registry of one session, an insertion-ordered    *)
(* dict client_id -> {ws, role}.                                           *)
(***************************************************************************)
Conn(client_id, w, role) == [client_id |-> client_id, ws |-> w, role |-> role]

ClientIds(conns) == { conns[i].client_id : i \in DOMAIN conns }

\* self._connections[session_id][client_id] = {"ws": ws, "role": role}
Register(conns, client_id, w, role) ==
    IF client_id \in ClientIds(conns)
    THEN [i \in DOMAIN conns |->
             IF conns[i].client_id = client_id
             THEN Conn(client_id, w, role) ELSE conns[i]]
    ELSE Append(conns, Conn(client_id, w, role))

\* self._connections[session_id].pop(client_id, None), for a set of ids
Pop(conns, ids) ==
    LET Keep(c) == c.client_id \notin ids
    IN  SelectSeq(conns, Keep)

\* the websocket registered for client_id
RegisteredWs(conns, client_id) ==
    { conns[i].ws : i \in { j \in DOMAIN conns : conns[j].client_id = client_id } }

\* broadcast: the clients the loop sends to
Recipients(conns, exclude) ==
    { c \in ClientIds(conns) : c # exclude }

\* the websocket registered under client_id (one per key)
WsOf(conns, client_id) == CHOOSE w \in RegisteredWs(conns, client_id) : TRUE

\* ws.send_json on a websocket in state st: on an open one it returns; on one
\* whose client has gone it returns or raises; on one the server closed
\* (superseded, task ended or crashed) it raises.
MaySendFail(st)  == st # "open"
MustSendFail(st) == st \notin {"open", "gone"}

\* broadcast: the sets `dead` can end up as, given each socket's state
DeadChoices(conns, exclude, st) ==
    { D \in SUBSET Recipients(conns, exclude) :
        \A c \in Recipients(conns, exclude) :
            /\ MustSendFail(st[WsOf(conns, c)]) => c \in D
            /\ c \in D => MaySendFail(st[WsOf(conns, c)]) }

\* a reply on a websocket: its type and its reason or message
Msg(w, type, info) == [to |-> w, type |-> type, info |-> info]

\* a broadcast message as websocket w gets it: type, subject and payload
Cast(w, type, info, payload) ==
    [to |-> w, type |-> type, info |-> info, payload |-> payload]

\* broadcast: the messages delivered when the sends to `dead` raised
Delivered(conns, exclude, dead, type, info, payload) ==
    { Cast(WsOf(conns, c), type, info, payload) :
        c \in Recipients(conns, exclude) \ dead }

\* Broadcast with the try/except around the send left out: the first send
\* that raises ends the loop and the exception leaves broadcast
BroadcastAbortsOnFailure(conns, st, type, info, payload, exclude, before) ==
    \E dead \in DeadChoices(conns, exclude, st) :
        /\ sent' = IF dead = {} 
                   THEN before \cup Delivered(conns, exclude, dead, type, info, payload)
                   ELSE before
        /\ connections' = conns

\* manager.broadcast(session_id, message, exclude) on registry conns, after the
\* invocation already sent `before`, when no send suspends: every recipient is
\* sent to, the failed ones are popped.
Broadcast(conns, st, type, info, payload, exclude, before) ==
    \E dead \in DeadChoices(conns, exclude, st) :
        /\ sent' = before \cup Delivered(conns, exclude, dead, type, info, payload)
        /\ connections' = Pop(conns, dead)

\* broadcast_state("main"), on the session and roster the handler leaves
BroadcastState(s, db) ==
    Broadcast(connections, ws_st, "state_sync", s.buzzer_state,
              StateSync(s, db), None, {})

\* no broadcast is suspended
Idle == [active |-> FALSE]

\* the buzzer state and winner a message carries: the welcome and state_sync
\* in buzzer_state and buzzer_winner, buzzer_locked in buzzer_state and
\* winner_id
Told(m) ==
    [buzzer_state  |-> m.payload.buzzer_state,
     buzzer_winner |-> IF m.type = "buzzer_locked" THEN m.payload.winner_id
                       ELSE m.payload.buzzer_winner]

\* what the clients have been told once the messages of the step are in
Hear ==
    heard' = [w \in WS |->
                LET told == { m \in sent' :
                                /\ m.to = w
                                /\ m.type \in {"connected", "state_sync",
                                               "buzzer_locked"} }
                IN  IF told = {} THEN heard[w]
                    ELSE Told(CHOOSE m \in told : TRUE)]

\* What is recorded of an invocation: the operation, the websocket it ran on
\* (0 for an HTTP request), the HTTP status (0 on a websocket) and the buzzer
\* state it found.
Event(op, who, resp) ==
    [op |-> op, who |-> who, resp |-> resp, from |-> session.buzzer_state]

(***************************************************************************)
(* Admin endpoints.  resp is the HTTP status: 200, 400 (HTTPException of   *)
(* the handler), 404 (session or team not found), 500 (an uncaught         *)
(* KeyError).                                                              *)
(***************************************************************************)
Refuse(op, status) ==
    /\ ev' = Event(op, 0, status)
    /\ sent' = {}
    /\ UNCHANGED <<session, teams_db, rl_log, connections, ws_tok, ws_st, now, closing, bc>>
    /\ Hear

EnableBuzzer(session_id) ==
    IF session_id # "main" THEN Refuse("enable", 404)
    ELSE IF EnableRejected(session) THEN Refuse("enable", 400)
    ELSE /\ session.question_number < MaxQuestion
         /\ session' = EnableEffect(session)
         /\ BroadcastState(session', teams_db)
         /\ ev' = Event("enable", 0, 200)
         /\ UNCHANGED <<teams_db, rl_log, ws_tok, ws_st, now, closing, bc>>
         /\ Hear

DisableBuzzer(session_id) ==
    IF session_id # "main" THEN Refuse("disable", 500)
    ELSE /\ session' = DisableEffect(session)
         /\ BroadcastState(session', teams_db)
         /\ ev' = Event("disable", 0, 200)
         /\ UNCHANGED <<teams_db, rl_log, ws_tok, ws_st, now, closing, bc>>
         /\ Hear

ResetBuzzer(session_id) ==
    IF session_id # "main" THEN Refuse("reset", 500)
    ELSE /\ session' = ResetEffect(session)
         /\ BroadcastState(session', teams_db)
         /\ ev' = Event("reset", 0, 200)
         /\ UNCHANGED <<teams_db, rl_log, ws_tok, ws_st, now, closing, bc>>
         /\ Hear

\* what is recorded of an update_score request: the event and the request body
ScoreEvent(team_id, delta, status) ==
    [op |-> "update_score", who |-> 0, resp |-> status,
     from |-> session.buzzer_state, team_id |-> team_id, delta |-> delta]

UpdateScore(team_id, delta) ==
    IF team_id \notin TeamIds(teams_db)
    THEN /\ ev' = ScoreEvent(team_id, delta, 404)
         /\ sent' = {}
         /\ UNCHANGED <<session, teams_db, rl_log, connections, ws_tok, ws_st,
                        now, closing, bc>>
         /\ Hear
    ELSE /\ \A i \in DOMAIN teams_db :
                teams_db[i].team_id = team_id
                    => ScoreAfter(teams_db[i].score, delta) <= MaxScore
         /\ teams_db' = UpdateScoreEffect(teams_db, team_id, delta)
         /\ BroadcastState(session, teams_db')
         /\ ev' = ScoreEvent(team_id, delta, 200)
         /\ UNCHANGED <<session, rl_log, ws_tok, ws_st, now, closing, bc>>
         /\ Hear

ResetScores ==
    /\ teams_db' = ZeroScores(teams_db)
    /\ session' = ResetScoresEffect(session)
    /\ BroadcastState(session', teams_db')
    /\ ev' = Event("reset_scores", 0, 200)
    /\ UNCHANGED <<rl_log, ws_tok, ws_st, now, closing, bc>>
    /\ Hear

SetTeams(a_id, a_name, b_id, b_name) ==
    /\ teams_db' = SetTeamsRoster(a_id, a_name, b_id, b_name)
    /\ session' = SetTeamsEffect(session)
    /\ BroadcastState(session', teams_db')
    /\ ev' = Event("set_teams", 0, 200)
    /\ UNCHANGED <<rl_log, ws_tok, ws_st, now, closing, bc>>
    /\ Hear

PanicButton ==
    /\ session' = PanicEffect(session)
    /\ BroadcastState(session', teams_db)
    /\ ev' = Event("panic", 0, 200)
    /\ UNCHANGED <<teams_db, rl_log, ws_tok, ws_st, now, closing, bc>>
    /\ Hear

(***************************************************************************)
(* manager.broadcast send by send.  Each `await info["ws"].send_json` is a *)
(* point where the task can be suspended while other tasks run; bc holds   *)
(* the loop's variables over the suspension: the dict iterator (the size   *)
(* and keys it started on and its position), the entry fetched (cur), the  *)
(* message, and dead.  got and start record whom the loop has delivered to *)
(* and who was registered when it started.                                 *)
(***************************************************************************)
Keys(conns) == [i \in DOMAIN conns |-> conns[i].client_id]

\* broadcast_state up to the first send of manager.broadcast
BroadcastStateBegin(op, s, db) ==
    /\ sent' = {}
    /\ connections' = connections
    /\ IF connections = <<>>
       THEN /\ bc' = Idle
            /\ ev' = Event(op, 0, 200)
       ELSE /\ bc' = [active  |-> TRUE,
                      op      |-> op,
                      type    |-> "state_sync",
                      info    |-> s.buzzer_state,
                      payload |-> StateSync(s, db),
                      used    |-> Len(connections),
                      keys    |-> Keys(connections),
                      pos     |-> 1,
                      cur     |-> connections[1],
                      start   |-> ClientIds(connections),
                      got     |-> {},
                      dead    |-> {}]
            /\ ev' = Event(op, 0, 0)

\* enable_buzzer whose broadcast is suspended on its first send
EnableBuzzerBegin ==
    /\ ~bc.active
    /\ ~EnableRejected(session)
    /\ session.question_number < MaxQuestion
    /\ session' = EnableEffect(session)
    /\ BroadcastStateBegin("enable", session', teams_db)
    /\ UNCHANGED <<teams_db, rl_log, ws_tok, ws_st, now, closing>>
    /\ Hear

\* reset_buzzer whose broadcast is suspended on its first send
ResetBuzzerBegin ==
    /\ ~bc.active
    /\ session' = ResetEffect(session)
    /\ BroadcastStateBegin("reset", session', teams_db)
    /\ UNCHANGED <<teams_db, rl_log, ws_tok, ws_st, now, closing>>
    /\ Hear

\* the positions the dict iterator can move to: the next one while the keys
\* are those it started on; any later one when keys were removed and added
\* without a change of size (Python leaves the entries visited open then)
NextPositions ==
    IF Keys(connections) = bc.keys THEN {bc.pos + 1}
    ELSE (bc.pos + 1)..(Len(connections) + 1)

\* the suspended send returns or raises, and the loop goes on: the iterator
\* raises RuntimeError (dictionary changed size during iteration) outside the
\* try block when the registry has another size than at the start; otherwise
\* the next entry is fetched and sent to, or the loop ends and dead is popped
BroadcastResume ==
    /\ bc.active
    /\ \E failed \in BOOLEAN :
          /\ failed => MaySendFail(ws_st[bc.cur.ws])
          /\ MustSendFail(ws_st[bc.cur.ws]) => failed
          /\ LET got1  == IF failed THEN bc.got
                          ELSE bc.got \cup {bc.cur.client_id}
                 dead1 == IF failed THEN bc.dead \cup {bc.cur.client_id}
                          ELSE bc.dead
             IN  /\ sent' = IF failed THEN {}
                            ELSE {Cast(bc.cur.ws, bc.type, bc.info, bc.payload)}
                 /\ IF Len(connections) # bc.used
                    THEN /\ bc' = Idle
                         /\ connections' = connections
                         /\ ev' = Event(bc.op, 0, 500)
                    ELSE \E p \in NextPositions :
                           IF p > Len(connections)
                           THEN /\ bc' = Idle
                                /\ connections' = Pop(connections, dead1)
                                /\ ev' = Event(bc.op, 0, 200)
                           ELSE /\ bc' = [bc EXCEPT !.pos = p,
                                                    !.cur = connections[p],
                                                    !.got = got1,
                                                    !.dead = dead1]
                                /\ connections' = connections
                                /\ ev' = Event(bc.op, 0, 0)
    /\ UNCHANGED <<session, teams_db, rl_log, ws_tok, ws_st, now, closing>>
    /\ Hear

(***************************************************************************)
(* websocket_endpoint.  A websocket is "new" before its handshake, "open"  *)
(* while its task waits in receive_text with the client there, "gone" once *)
(* the client has dropped, "superseded" once manager.connect closed it     *)
(* with code 4009, "closed" after the task's disconnect clean-up and       *)
(* "crashed" after the task died of an exception it does not catch.        *)
(***************************************************************************)
\* manager.connect: old_ws.close(code=4009) on the socket it replaces
Supersede(st, conns, client_id) ==
    [v \in WS |->
        IF v \in RegisteredWs(conns, client_id) /\ st[v] = "open"
        THEN "superseded" ELSE st[v]]

SupersededClose(conns, client_id) ==
    { Msg(v, "close", "4009") : v \in RegisteredWs(conns, client_id) }

\* the handshake and everything up to the receive loop
Connect(w, tok) ==
    /\ ws_st[w] = "new"
    /\ LET st1    == [Supersede(ws_st, connections, tok.sub) EXCEPT ![w] = "open"]
           conns1 == Register(connections, tok.sub, w, tok.role)
           before == SupersededClose(connections, tok.sub)
                        \cup {Cast(w, "connected", session.buzzer_state,
                                    Welcome(session, teams_db', tok.sub, tok.role))}
       IN  /\ ws_st' = st1
           /\ ws_tok' = [ws_tok EXCEPT ![w] = tok]
           /\ teams_db' = IF tok.role = "participant"
                          THEN SetConnected(teams_db, tok.sub, TRUE)
                          ELSE teams_db
           /\ IF tok.role = "participant"
              THEN Broadcast(conns1, st1, "opponent_connected", tok.sub,
                             Opponent(teams_db'), tok.sub, before)
              ELSE sent' = before /\ connections' = conns1
           /\ ev' = Event("connect", w, 0)
    /\ UNCHANGED <<session, rl_log, now, closing, bc>>
    /\ Hear

\* the handshake of a client that drops right after the accept: the welcome
\* send_json raises outside the try block and the task ends there
ConnectDropped(w, tok) ==
    /\ ws_st[w] = "new"
    /\ ws_st' = [Supersede(ws_st, connections, tok.sub) EXCEPT ![w] = "crashed"]
    /\ ws_tok' = [ws_tok EXCEPT ![w] = tok]
    /\ connections' = Register(connections, tok.sub, w, tok.role)
    /\ teams_db' = IF tok.role = "participant"
                   THEN SetConnected(teams_db, tok.sub, TRUE)
                   ELSE teams_db
    /\ sent' = SupersededClose(connections, tok.sub)
    /\ ev' = Event("connect_dropped", w, 0)
    /\ UNCHANGED <<session, rl_log, now, closing, bc>>
    /\ Hear

\* manager.connect up to its first suspension: after accept, an identity
\* that is registered already sends the task into `await old_ws.close(...)`
\* with old_ws in hand; otherwise nothing suspends before the registration
ConnectStart(w, tok) ==
    /\ ws_st[w] = "new"
    /\ IF tok.sub \in ClientIds(connections)
       THEN /\ ws_st' = [ws_st EXCEPT ![w] = "closing_old"]
            /\ closing' = [closing EXCEPT ![w] = WsOf(connections, tok.sub)]
            /\ ws_tok' = [ws_tok EXCEPT ![w] = tok]
            /\ ev' = Event("connect_start", w, 0)
            /\ sent' = {}
            /\ UNCHANGED <<session, teams_db, rl_log, connections, now, bc>>
            /\ Hear
       ELSE Connect(w, tok)

\* old_ws.close(code=4009) has returned or raised (the exception is
\* swallowed): the task registers its own websocket over whatever the
\* registry holds by now, and goes on to the welcome and the broadcast
ConnectResume(w) ==
    /\ ws_st[w] = "closing_old"
    /\ LET tok    == ws_tok[w]
           old_ws == closing[w]
           st1    == [v \in WS |->
                         IF v = w THEN "open"
                         ELSE IF v = old_ws /\ ws_st[v] = "open" THEN "superseded"
                         ELSE ws_st[v]]
           conns1 == Register(connections, tok.sub, w, tok.role)
           before == (IF ws_st[old_ws] = "open"
                      THEN {Msg(old_ws, "close", "4009")} ELSE {})
                        \cup {Cast(w, "connected", session.buzzer_state,
                                    Welcome(session, teams_db', tok.sub, tok.role))}
       IN  /\ ws_st' = st1
           /\ closing' = [closing EXCEPT ![w] = 0]
           /\ teams_db' = IF tok.role = "participant"
                          THEN SetConnected(teams_db, tok.sub, TRUE)
                          ELSE teams_db
           /\ IF tok.role = "participant"
              THEN Broadcast(conns1, st1, "opponent_connected", tok.sub,
                             Opponent(teams_db'), tok.sub, before)
              ELSE sent' = before /\ connections' = conns1
           /\ ev' = Event("connect", w, 0)
    /\ UNCHANGED <<session, rl_log, ws_tok, now, bc>>
    /\ Hear

\* the client drops its connection
ClientGone(w) ==
    /\ ws_st[w] = "open"
    /\ ws_st' = [ws_st EXCEPT ![w] = "gone"]
    /\ ev' = Event("client_gone", w, 0)
    /\ sent' = {}
    /\ UNCHANGED <<session, teams_db, rl_log, connections, ws_tok, now, closing, bc>>
    /\ Hear

\* except WebSocketDisconnect: receive_text raised on a dropped or closed socket
Disconnect(w) ==
    /\ ws_st[w] \in {"gone", "superseded"}
    /\ LET tok    == ws_tok[w]
           st1    == [ws_st EXCEPT ![w] = "closed"]
           conns1 == Pop(connections, {tok.sub})
       IN  /\ ws_st' = st1
           /\ teams_db' = IF tok.role = "participant"
                          THEN SetConnected(teams_db, tok.sub, FALSE)
                          ELSE teams_db
           /\ Broadcast(conns1, st1, "opponent_disconnected", tok.sub,
                        Opponent(teams_db'), None, {})
    /\ ev' = Event("disconnect", w, 0)
    /\ UNCHANGED <<session, rl_log, ws_tok, now, closing, bc>>
    /\ Hear

\* Reply sent through the registry to every connection instead
ReplyToAll(w, op, type, info) ==
    /\ sent' = { Msg(connections[i].ws, type, info) : i \in DOMAIN connections }
    /\ ev' = Event(op, w, 0)
    /\ UNCHANGED <<session, teams_db, connections, ws_tok, ws_st, now, closing, bc>>

\* a reply on the task's own websocket; nothing else changes
Reply(w, op, type, info) ==
    /\ sent' = {Msg(w, type, info)}
    /\ ev' = Event(op, w, 0)
    /\ UNCHANGED <<session, teams_db, connections, ws_tok, ws_st, now, closing, bc>>

\* the task dies of an uncaught exception: no clean-up runs
Crash(w, op) ==
    /\ ws_st' = [ws_st EXCEPT ![w] = "crashed"]
    /\ sent' = {}
    /\ ev' = Event(op, w, 0)
    /\ UNCHANGED <<teams_db, connections, ws_tok, now, closing, bc>>

\* RateLimitedReply as a rejection-kind message
RateLimitedAsRejection == [type |-> "buzz_rejected", info |-> "rate_limited"]

\* the replies to a signal that is not accepted
RateLimitedReply == [type |-> "error", info |-> "Rate limited"]
NotEnabledReply  == [type |-> "buzz_rejected", info |-> "not_enabled"]

\* msg_type == "buzz" and role == "participant"
Buzz(w) ==
    LET client_id == ws_tok[w].sub IN
    IF Limited(rl_log[client_id], now)
    THEN /\ rl_log' = AfterIsLimited(rl_log, client_id, now)
         /\ Reply(w, "buzz", RateLimitedReply.type, RateLimitedReply.info)
    ELSE /\ rl_log' = AfterRecord(AfterIsLimited(rl_log, client_id, now), client_id, now)
         /\ IF ~SignalAccepted(session)
            THEN Reply(w, "buzz", NotEnabledReply.type, NotEnabledReply.info)
            ELSE /\ session' = LockEffect(session, client_id, now)
                 /\ IF client_id \notin TeamIds(teams_db)
                    THEN Crash(w, "buzz")   \* teams_db[client_id]: KeyError
                    ELSE /\ Broadcast(connections, ws_st, "buzzer_locked",
                                      client_id,
                                      BuzzerLocked(teams_db, client_id, now),
                                      None, {})
                         /\ ev' = Event("buzz", w, 0)
                         /\ UNCHANGED <<teams_db, ws_tok, ws_st, now, closing, bc>>

\* one pass of the receive loop on message m
Receive(w, m) ==
    /\ ws_st[w] = "open"
    /\ CASE m = "badjson" ->
              Reply(w, m, "error", "Bad JSON") /\ UNCHANGED rl_log
         [] m = "notdict" ->     \* data.get on a list or a number: AttributeError
              Crash(w, m) /\ UNCHANGED <<session, rl_log>>
         [] m = "buzz" /\ ws_tok[w].role = "participant" ->
              Buzz(w)
         [] m = "ping" ->
              Reply(w, m, "pong", "ts") /\ UNCHANGED rl_log
         [] OTHER ->
              /\ sent' = {}
              /\ ev' = Event(m, w, 0)
              /\ UNCHANGED <<session, teams_db, rl_log, connections, ws_tok, ws_st, now, closing, bc>>
    /\ Hear

\* time passes
Tick(limit) ==
    /\ now < limit
    /\ now' = now + 1
    /\ ev' = Event("tick", 0, 0)
    /\ sent' = {}
    /\ UNCHANGED <<session, teams_db, rl_log, connections, ws_tok, ws_st, closing, bc>>
    /\ Hear

(***************************************************************************)
(* The server after start-up (lifespan: seed_initial_data), and its steps. *)
(***************************************************************************)
Init ==
    /\ session = InitialSession
    /\ teams_db = seed_initial_data
    /\ rl_log = [c \in ParticipantIds |-> <<>>]
    /\ connections = <<>>
    /\ ws_tok = [w \in WS |-> NoTok]
    /\ ws_st = [w \in WS |-> "new"]
    /\ now = 0
    /\ ev = Event("start", 0, 0)
    /\ sent = {}
    /\ closing = [w \in WS |-> 0]
    /\ bc = Idle
    /\ heard = [w \in WS |-> [buzzer_state |-> None, buzzer_winner |-> None]]

\* The buzzer, the roster and the signals of two participants within one
\* reading of the clock: the admin endpoints on the default session "main",
\* the connects, and the receive loop on signals.
Admin ==
    \/ EnableBuzzer("main")
    \/ DisableBuzzer("main")
    \/ ResetBuzzer("main")
    \/ \E id \in ParticipantIds, d \in Deltas : UpdateScore(id, d)
    \/ ResetScores
    \/ \E t \in SetTeamsArgs : SetTeams(t[1], t[2], t[3], t[4])
    \/ PanicButton

Socket ==
    \/ \E w \in DOMAIN Caller : Connect(w, Caller[w])
    \/ \E w \in DOMAIN Caller : Receive(w, "buzz")

Next == Admin \/ Socket

Spec == Init /\ [][Next]_vars

\* The rate limiter over time: one participant signalling while the clock
\* runs and the buzzer is opened and reset.
NextRL ==
    \/ Connect(1, Caller[1])
    \/ Receive(1, "buzz")
    \/ Tick(MaxTime)
    \/ EnableBuzzer("main")
    \/ ResetBuzzer("main")

SpecRL == Init /\ [][NextRL]_vars

\* Connects of one identity, each one a task that may be suspended in the
\* close of the websocket it replaces while the others run.
NextConn ==
    \/ \E w \in WS : ConnectStart(w, Caller[1])
    \/ \E w \in WS : ConnectResume(w)
    \/ \E w \in WS : ClientGone(w)
    \/ \E w \in WS : Disconnect(w)

SpecConn == Init /\ [][NextConn]_vars

\* The two participants and the screen coming and going: clients that drop,
\* the clean-up of their tasks, every kind of inbound message, and the
\* broadcasts of enable and reset over the registry they leave.
NetCaller == Append(Caller, Screen)
Inbound == {"ping", "badjson", "notdict", "unknown", "notype"}

NextNet ==
    \/ \E w \in WS : Connect(w, NetCaller[w])
    \/ \E w \in WS : ConnectDropped(w, NetCaller[w])
    \/ \E w \in WS : ClientGone(w)
    \/ \E w \in WS : Disconnect(w)
    \/ \E w \in WS, m \in Inbound : Receive(w, m)
    \/ Receive(3, "buzz")
    \/ EnableBuzzer("main")
    \/ ResetBuzzer("main")

SpecNet == Init /\ [][NextNet]_vars

\* A broadcast of enable or reset suspended on its sends, one at a time,
\* while clients connect, drop and are cleaned up.
NextBc ==
    \/ EnableBuzzerBegin
    \/ ResetBuzzerBegin
    \/ BroadcastResume
    \/ \E w \in WS : Connect(w, NetCaller[w])
    \/ \E w \in WS : ClientGone(w)
    \/ \E w \in WS : Disconnect(w)

SpecBc == Init /\ [][NextBc]_vars

(***************************************************************************)
(* Properties.  A step is told by ev': the operation just run, the socket  *)
(* it ran on and the buzzer state it found.                                *)
(***************************************************************************)
TypeOK ==
    /\ session.buzzer_state \in BuzzerState
    /\ session.buzzer_winner \in ParticipantIds \cup {None}
    /\ session.buzzer_timestamp \in {NoneTs} \cup 0..MaxTime
    /\ session.question_number \in 0..MaxQuestion
    /\ \A w \in WS : ws_st[w] \in {"new", "closing_old", "open", "gone",
                               "superseded", "closed", "crashed"}
    /\ \A w \in WS : closing[w] \in WS \cup {0}

\* the ledger entries younger than the window at time t_now
Younger(events, t_now) ==
    LET Keep(t) == t > t_now - window
    IN  SelectSeq(events, Keep)

\* the ledger entries at or after t_now - window
NotOlder(events, t_now) ==
    LET Keep(t) == t >= t_now - window
    IN  SelectSeq(events, Keep)

\* websocket w's signal passes the rate limiter in the current state
Admitted(w) == Len(Younger(rl_log[ws_tok[w].sub], now)) < max_events

\* the step is the handling of a signal received on websocket w
SignalOn(w) == ev'.op = "buzz" /\ ev'.who = w

Unset(s) == s.buzzer_winner = None /\ s.buzzer_timestamp = NoneTs
BothSet(s) == s.buzzer_winner # None /\ s.buzzer_timestamp # NoneTs

(* C1: at most one winner.  An admitted signal that finds the buzzer       *)
(* Enabled locks it with its sender as winner and the current time as      *)
(* timestamp; an admitted signal that finds any other state is rejected    *)
(* and leaves the session as it is; the buzzer gets back to Enabled only   *)
(* by enable, and a winner is named only by a signal that found Enabled.   *)
C1_AtMostOneWinner ==
    [][ /\ \A w \in WS : (SignalOn(w) /\ Admitted(w)) =>
              IF session.buzzer_state = Enabled
              THEN session' = [buzzer_state |-> Locked,
                               buzzer_winner |-> ws_tok[w].sub,
                               buzzer_timestamp |-> now,
                               question_number |-> session.question_number]
              ELSE /\ session' = session
                   /\ \E m \in sent' : m.to = w /\ m.type = "buzz_rejected"
        /\ (session'.buzzer_state = Enabled /\ session.buzzer_state # Enabled)
              => ev'.op = "enable"
        /\ (session'.buzzer_winner # None
                /\ session'.buzzer_winner # session.buzzer_winner)
              => (ev'.op = "buzz" /\ session.buzzer_state = Enabled)
      ]_vars

\* the second participant's signal was just rejected: the first one had won
C1_Witness ==
    /\ ev.op = "buzz" /\ ev.from = Locked
    /\ session.buzzer_state = Locked
    /\ session.buzzer_winner # ws_tok[ev.who].sub
    /\ sent = {Msg(ev.who, "buzz_rejected", "not_enabled")}

C3_BothOrNeither ==
    (session.buzzer_winner = None) <=> (session.buzzer_timestamp = NoneTs)

(* C4, as claimed: whenever the buzzer is Disabled or Enabled, winner and  *)
(* timestamp are both unset.                                               *)
C4_UnsetUnlessLocked ==
    session.buzzer_state \in {Disabled, Enabled} => Unset(session)

(* C4, amended: whenever the buzzer is Enabled, winner and timestamp are   *)
(* both unset; while it is Disabled they may still be set (disable keeps   *)
(* them), and the winner is never set without the timestamp.               *)
C4_UnsetWhenEnabled ==
    /\ session.buzzer_state = Enabled => Unset(session)
    /\ session.buzzer_state = Disabled
          => (session.buzzer_winner # None => session.buzzer_timestamp # NoneTs)

\* the buzzer re-opened by enable after a round a signal was admitted in
C4_Witness ==
    /\ ev.op = "enable" /\ ev.resp = 200
    /\ session.buzzer_state = Enabled
    /\ session.question_number = 2
    /\ \E c \in ParticipantIds : rl_log[c] # <<>>

(* C5: whenever the buzzer is Locked, winner and timestamp are both set,   *)
(* and no step that leaves it Locked changes either.                       *)
C5_LockedHasWinner ==
    /\ [](session.buzzer_state = Locked => BothSet(session))
    /\ [][ (session.buzzer_state = Locked /\ session'.buzzer_state = Locked)
              => /\ session'.buzzer_winner = session.buzzer_winner
                 /\ session'.buzzer_timestamp = session.buzzer_timestamp ]_vars

\* an operation other than the signal ran on a Locked buzzer and left it Locked
C5_Witness ==
    /\ session.buzzer_state = Locked
    /\ ev.from = Locked
    /\ ev.op = "update_score" /\ ev.resp = 200
    /\ BothSet(session)

(* C6, as claimed: the round counter never decreases, and it changes only  *)
(* by a successful enable, by exactly +1.                                  *)
C6_CounterMonotone ==
    [][ /\ session'.question_number >= session.question_number
        /\ session'.question_number # session.question_number
              => /\ ev'.op = "enable" /\ ev'.resp = 200
                 /\ session'.question_number = session.question_number + 1
      ]_vars

(* C6, amended: the round counter changes only by a successful enable,     *)
(* which adds exactly 1, or by reset-scores and reconfigure-teams, which   *)
(* set it back to 0; disable, reset, panic, score-adjust, a signal and a   *)
(* rejected enable leave it as it is.                                      *)
C6_CounterSteps ==
    [][ /\ (ev'.op = "enable" /\ ev'.resp = 200)
              => session'.question_number = session.question_number + 1
        /\ ev'.op \in {"reset_scores", "set_teams"}
              => session'.question_number = 0
        /\ ~(ev'.op = "enable" /\ ev'.resp = 200)
              /\ ev'.op \notin {"reset_scores", "set_teams"}
              => session'.question_number = session.question_number
      ]_vars

\* reset-scores has just set a counter back to 0 that enable had raised
C6_Witness ==
    /\ ev.op = "reset_scores"
    /\ ev.from = Enabled
    /\ session.question_number = 0

(* C7: enable on a Locked buzzer answers 400 (InvalidTransition), leaves   *)
(* state, winner, timestamp and round counter as they are and sends        *)
(* nothing; enable on a Disabled or Enabled buzzer answers 200, sets the   *)
(* state Enabled, clears winner and timestamp and adds 1 to the counter.   *)
C7_EnableFromLockedRejected ==
    [][ ev'.op = "enable" =>
            IF session.buzzer_state = Locked
            THEN /\ ev'.resp = 400
                 /\ session' = session
                 /\ sent' = {}
            ELSE /\ ev'.resp = 200
                 /\ session' = [buzzer_state |-> Enabled,
                                buzzer_winner |-> None,
                                buzzer_timestamp |-> NoneTs,
                                question_number |-> session.question_number + 1]
      ]_vars

\* enable was just refused on a Locked buzzer with clients connected
C7_Witness ==
    /\ ev.op = "enable" /\ ev.resp = 400
    /\ session.buzzer_state = Locked
    /\ Len(connections) >= 1
    /\ sent = {}

(* C8: reset, from any buzzer state, leaves the buzzer Disabled with       *)
(* winner and timestamp unset, and the round counter and the roster as     *)
(* they were.                                                              *)
C8_ResetClears ==
    [][ ev'.op = "reset" =>
            /\ session' = [buzzer_state |-> Disabled,
                           buzzer_winner |-> None,
                           buzzer_timestamp |-> NoneTs,
                           question_number |-> session.question_number]
            /\ teams_db' = teams_db
      ]_vars

\* reset has just run on a Locked buzzer, with a participant connected
C8_Witness ==
    /\ ev.op = "reset" /\ ev.from = Locked
    /\ session.question_number >= 1
    /\ \E i \in DOMAIN teams_db : teams_db[i].is_connected

\* a signal step's effect on the sender's ledger and its answer, when the
\* entries `kept` are the ones is_limited retains
LedgerStep(w, kept) ==
    LET cid == ws_tok[w].sub IN
    IF Len(kept) >= max_events
    THEN /\ rl_log'[cid] = kept
         /\ sent' = {Msg(w, "error", "Rate limited")}
    ELSE /\ rl_log'[cid] = Append(kept, now)
         /\ Msg(w, "error", "Rate limited") \notin sent'

(* C9, as claimed: is_limited retains the entries at or after now - window *)
(* and removes the older ones, stores the result, and limits iff the       *)
(* retained count is >= max_events.                                        *)
C9_WindowAsClaimed ==
    [][ \A w \in WS : SignalOn(w) =>
            LedgerStep(w, NotOlder(rl_log[ws_tok[w].sub], now)) ]_vars

(* C9, amended: is_limited retains exactly the entries younger than the    *)
(* window (t > now - window; an entry exactly window old is removed),      *)
(* stores the result, and limits iff the retained count is >= max_events;  *)
(* with max 3 and window 5, after attempts at 0, 1, 2 the attempt at 3 is  *)
(* limited and an attempt at 6 is admitted.                                *)
C9_WindowAmended ==
    [][ \A w \in WS : SignalOn(w) =>
            /\ LedgerStep(w, Younger(rl_log[ws_tok[w].sub], now))
            /\ (rl_log[ws_tok[w].sub] = <<0, 1, 2>> /\ now = 3)
                  => /\ sent' = {Msg(w, "error", "Rate limited")}
                     /\ rl_log'[ws_tok[w].sub] = <<0, 1, 2>>
            /\ (rl_log[ws_tok[w].sub] = <<0, 1, 2>> /\ now = 6)
                  => /\ rl_log'[ws_tok[w].sub] = <<2, 6>>
                     /\ sent' = {Msg(w, "buzz_rejected", "not_enabled")}
                           \/ session'.buzzer_state = Locked
      ]_vars

\* an attempt at t=6 was admitted, with the entry of t=2 still in the ledger
C9_Witness ==
    /\ ev.op = "buzz" /\ now = 6
    /\ rl_log["gadzit"] = <<2, 6>>

(* C10: a signal that is rejected, by the rate limiter or because the      *)
(* buzzer is not Enabled, is answered on the sender's websocket and sends  *)
(* nothing to any other; buzzer state, winner, timestamp, round counter    *)
(* and roster stay as they were.                                           *)
C10_RejectionIsUnicast ==
    [][ \A w \in WS :
            (SignalOn(w) /\ (~Admitted(w) \/ session.buzzer_state # Enabled))
            => /\ sent' # {}
               /\ \A m \in sent' : m.to = w
               /\ session' = session
               /\ teams_db' = teams_db
      ]_vars

\* a signal was just rejected while the other participant was connected too
C10_Witness ==
    /\ ev.op = "buzz" /\ ev.from = Disabled
    /\ Len(connections) = 2
    /\ \A i \in DOMAIN connections : ws_st[connections[i].ws] = "open"
    /\ sent = {Msg(ev.who, "buzz_rejected", "not_enabled")}

\* websocket w is live: its handshake is done and nobody has closed it
Live(w) == ws_st[w] = "open"

(* C11: at every instant no identity has two live websockets, and a        *)
(* websocket that another one has replaced in the registry is not live     *)
(* any more (it was closed with code 4009), whatever the interleaving of   *)
(* the connects.                                                           *)
C11_OneLiveChannel ==
    /\ \A w1, w2 \in WS :
          (w1 # w2 /\ Live(w1) /\ Live(w2)) => ws_tok[w1].sub # ws_tok[w2].sub
    /\ \A w \in WS :
          (Live(w) /\ RegisteredWs(connections, ws_tok[w].sub) # {})
              => w \in RegisteredWs(connections, ws_tok[w].sub)

(* C12: in every reachable state the roster holds exactly two parties with *)
(* distinct identities, and every snapshot sent carries both a first and a *)
(* second party.                                                           *)
C12_TwoParties ==
    /\ Len(teams_db) = 2
    /\ \A i, j \in DOMAIN teams_db :
          i # j => teams_db[i].team_id # teams_db[j].team_id
    /\ \A m \in sent :
          m.type = "state_sync" => Len(m.payload.duel) = 2

\* the score of party id in roster db
ScoreOf(db, id) ==
    LET i == CHOOSE j \in DOMAIN db : db[j].team_id = id IN db[i].score

(* C13: score floor.  Every party's score is >= 0 in every reachable       *)
(* state; adjust_score(identity, delta) on a roster member answers 200,    *)
(* sets that party's score to max(0, score + delta) and leaves every other *)
(* party's entry and the member's other fields as they were; on an         *)
(* identity absent from the roster it answers 404 (not found) and changes  *)
(* no score.                                                               *)
C13_ScoreFloor ==
    /\ [](\A i \in DOMAIN teams_db : teams_db[i].score >= 0)
    /\ [][ ev'.op = "update_score" =>
            IF \E i \in DOMAIN teams_db : teams_db[i].team_id = ev'.team_id
            THEN /\ ev'.resp = 200
                 /\ DOMAIN teams_db' = DOMAIN teams_db
                 /\ \A i \in DOMAIN teams_db :
                       IF teams_db[i].team_id = ev'.team_id
                       THEN teams_db'[i] =
                              [teams_db[i] EXCEPT !.score =
                                  IF teams_db[i].score + ev'.delta > 0
                                  THEN teams_db[i].score + ev'.delta ELSE 0]
                       ELSE teams_db'[i] = teams_db[i]
            ELSE /\ ev'.resp = 404
                 /\ teams_db' = teams_db
                 /\ sent' = {}
       ]_vars

\* a score of 1 has just been adjusted by -2 and stands at 0, the other
\* party's score of 1 untouched
C13_Witness ==
    /\ ev.op = "update_score" /\ ev.resp = 200 /\ ev.delta = -2
    /\ Len(teams_db) = 2
    /\ ScoreOf(teams_db, ev.team_id) = 0
    /\ \E i \in DOMAIN teams_db :
          teams_db[i].team_id # ev.team_id /\ teams_db[i].score = 1

\* websocket w was sent a message of type t in the step
Got(w, t) == \E m \in sent' : m.to = w /\ m.type = t

\* the registry entries before the step, without those of identity x
Others(x) ==
    { connections[i] : i \in { j \in DOMAIN connections :
                                  connections[j].client_id # x } }

\* the registry entries after the step
Kept == { connections'[i] : i \in DOMAIN connections' }

\* a broadcast of type t that leaves out identity x: every other registered
\* channel either got the message and is kept, or its send failed and it is
\* removed; a channel whose websocket is open got it
Isolated(x, t) ==
    \A c \in Others(x) :
        /\ Got(c.ws, t) <=> c \in Kept
        /\ ws_st[c.ws] = "open" => Got(c.ws, t)

Mutation ==
    \/ /\ ev'.op \in {"enable", "disable", "reset", "update_score",
                       "reset_scores", "set_teams"}
       /\ ev'.resp = 200
    \/ \E w \in WS :
          SignalOn(w) /\ Admitted(w) /\ session.buzzer_state = Enabled

\* message m tells the session and roster as the step leaves them
TellsPostState(m) ==
    /\ m.type \in {"state_sync", "buzzer_locked"}
    /\ m.payload.buzzer_state = session'.buzzer_state
    /\ m.payload.duel = get_duel_payload(teams_db')
    /\ m.type = "state_sync" =>
          /\ m.payload.buzzer_winner = session'.buzzer_winner
          /\ m.payload.buzzer_timestamp = session'.buzzer_timestamp
          /\ m.payload.question_number = session'.question_number
    /\ m.type = "buzzer_locked" =>
          /\ m.payload.winner_id = session'.buzzer_winner
          /\ m.payload.timestamp = session'.buzzer_timestamp

(* C15: every state-mutating operation (enable, disable, reset, accepted   *)
(* signal, score adjust, reset-scores, reconfigure) sends every channel    *)
(* connected to the session a message carrying the session and roster as   *)
(* the operation leaves them, and no step takes the buzzer into Locked     *)
(* without the locked event going to every connected channel.              *)
C15_MutationIsBroadcast ==
    [][ /\ Mutation =>
              \A i \in DOMAIN connections :
                  ws_st[connections[i].ws] = "open" =>
                      \E m \in sent' :
                          m.to = connections[i].ws /\ TellsPostState(m)
        /\ (session'.buzzer_state = Locked /\ session.buzzer_state # Locked) =>
              \A i \in DOMAIN connections :
                  ws_st[connections[i].ws] = "open" =>
                      Got(connections[i].ws, "buzzer_locked")
      ]_vars

\* what the session holds of the things the clients are told
Current == [buzzer_state  |-> session.buzzer_state,
            buzzer_winner |-> session.buzzer_winner]

(* C16: snapshot consistency.  The payload of every state_sync is the      *)
(* session and roster as the mutation that triggered it left them, and     *)
(* once no send is pending the buzzer state and winner each connected      *)
(* channel was last told are those the session holds (no channel is left   *)
(* with an older snapshot).                                                *)
C16_SnapshotsConsistent ==
    /\ [][ /\ ~bc.active =>
                (\A m \in sent' : m.type = "state_sync" => TellsPostState(m))
           /\ (~bc.active /\ bc'.active) =>
                TellsPostState([type |-> bc'.type, payload |-> bc'.payload])
           /\ (bc.active /\ bc'.active) => bc'.payload = bc.payload
         ]_vars
    /\ [](~bc.active =>
            \A i \in DOMAIN connections :
                ws_st[connections[i].ws] = "open"
                    => heard[connections[i].ws] = Current)

(* C19: a broadcast works on the channel set as it was when it started: a  *)
(* connect or a disconnect that another task performs while the broadcast  *)
(* is suspended on a send does not abort it (the handler still answers     *)
(* 200), and when it ends every channel that was registered at its start   *)
(* and still is has been sent the message.                                 *)
C19_BroadcastOverSnapshot ==
    [][ (bc.active /\ ~bc'.active) =>
            /\ ev'.resp = 200
            /\ \A c \in bc.start \cap ClientIds(connections) :
                  \/ c \in bc.got \cup bc.dead
                  \/ c = bc.cur.client_id
      ]_vars

\* the step handled, on websocket w, a message of no recognized kind: a type
\* that is unknown or missing, or a signal from a role other than participant
Unrecognized(w) ==
    /\ ev'.who = w
    /\ \/ ev'.op \in {"unknown", "notype"}
       \/ ev'.op = "buzz" /\ ws_tok[w].role # "participant"

(* C17: a message of no recognized kind is answered with an error-kind     *)
(* reply on the sender's websocket and on no other; the connection stays   *)
(* open and registered and the session is unchanged.                       *)
C17_UnknownAnsweredWithError ==
    [][ \A w \in WS : Unrecognized(w) =>
            /\ \E m \in sent' : m.to = w /\ m.type = "error"
            /\ \A m \in sent' : m.to = w
            /\ ws_st'[w] = "open"
            /\ connections' = connections
            /\ session' = session
      ]_vars

(* C18: on every participant signal the rate limiter decides first: a      *)
(* limited attempt appends nothing to the sender's ledger and leaves the   *)
(* session as it is, even when the buzzer is Enabled; an attempt that      *)
(* passes appends exactly one timestamp, the current time, whether it      *)
(* locks the buzzer or is rejected; no signal changes another identity's   *)
(* ledger, and no administrative operation changes any ledger.             *)
C18_OneRecordPerAttempt ==
    [][ /\ \A w \in WS :
              (SignalOn(w) /\ ws_tok[w].role = "participant") =>
                  LET cid  == ws_tok[w].sub
                      kept == Younger(rl_log[cid], now)
                  IN  /\ \A c \in ParticipantIds \ {cid} : rl_log'[c] = rl_log[c]
                      /\ IF Len(kept) < max_events
                         THEN /\ rl_log'[cid] = Append(kept, now)
                              /\ session.buzzer_state = Enabled
                                    <=> session'.buzzer_state = Locked
                                            /\ session' # session
                         ELSE /\ rl_log'[cid] = kept
                              /\ session' = session
        /\ ev'.who = 0 => rl_log' = rl_log
      ]_vars

\* a signal was just refused by the rate limiter while the buzzer was
\* Enabled: the buzzer is still Enabled and the ledger holds its three entries
C18_Witness ==
    /\ ev.op = "buzz" /\ ev.from = Enabled
    /\ session.buzzer_state = Enabled
    /\ sent = {Msg(ev.who, "error", "Rate limited")}
    /\ Len(rl_log[ws_tok[ev.who].sub]) = max_events

\* the task of websocket w ends in the step
TaskEnds(w) ==
    /\ ws_st'[w] \in {"closed", "crashed"}
    /\ ws_st[w] \notin {"closed", "crashed"}

(* C20: whichever way the task of a registered connection ends (the        *)
(* client disconnects, the welcome or a reply cannot be sent, or handling  *)
(* a message raises), it leaves with its registry entry removed, its       *)
(* party's connected flag cleared (participant role) and the peers sent    *)
(* the peer-disconnected event.                                            *)
C20_DeregisteredOnExit ==
    [][ \A w \in WS : TaskEnds(w) =>
            /\ \A i \in DOMAIN connections' : connections'[i].ws # w
            /\ ws_tok'[w].role = "participant" =>
                  \A i \in DOMAIN teams_db' :
                      teams_db'[i].team_id = ws_tok'[w].sub
                          => ~teams_db'[i].is_connected
            /\ \A c \in Others(ws_tok'[w].sub) :
                  ws_st[c.ws] = "open" => Got(c.ws, "opponent_disconnected")
      ]_vars

\* the step is the disconnect clean-up of websocket w, which manager.connect
\* had closed as superseded, while websocket v, open, holds the registry
\* entry of the same identity
CleanupOfSuperseded(w, v) ==
    /\ ev'.op = "disconnect" /\ ev'.who = w
    /\ ws_st[w] = "superseded"
    /\ v # w /\ Live(v)
    /\ ws_tok[v].sub = ws_tok[w].sub
    /\ v \in RegisteredWs(connections, ws_tok[w].sub)

(* C21: the disconnect clean-up of a channel closed as superseded does not *)
(* affect the newer connection of the same identity: the newer channel     *)
(* stays registered, the party's connected flag stays true, and no         *)
(* peer-disconnected event is sent for that identity.                      *)
C21_SupersededCleanupHarmless ==
    [][ \A w, v \in WS : CleanupOfSuperseded(w, v) =>
            /\ v \in RegisteredWs(connections', ws_tok[v].sub)
            /\ \A i \in DOMAIN teams_db' :
                  (teams_db'[i].team_id = ws_tok[v].sub
                        /\ ws_tok[v].role = "participant")
                  => teams_db'[i].is_connected
            /\ \A m \in sent' :
                  ~(m.type = "opponent_disconnected" /\ m.info = ws_tok[v].sub)
      ]_vars

(* C22: in every reachable state in which the buzzer is Locked the winner  *)
(* is a member of the current roster; a signal from a participant whose    *)
(* identity a reconfigure-teams took out of the roster names no winner.    *)
C22_WinnerInRoster ==
    session.buzzer_state = Locked
        => \E i \in DOMAIN teams_db :
              teams_db[i].team_id = session.buzzer_winner

\* no connection task is between the accept and the registration of its
\* websocket (the handlers are single steps otherwise)
Quiet == \A w \in WS : ws_st[w] # "closing_old"

\* the registry holds a participant-role channel for identity id
HasChannel(id) ==
    \E i \in DOMAIN connections :
        connections[i].client_id = id /\ connections[i].role = "participant"

(* C23: roster liveness agrees with the registry.  Whenever no connection  *)
(* task is in the middle of its connect or disconnect handling, a party's  *)
(* connected flag is true if and only if the registry holds a              *)
(* participant-role channel for that identity.                             *)
C23_FlagAgreesWithRegistry ==
    Quiet => \A i \in DOMAIN teams_db :
                teams_db[i].is_connected <=> HasChannel(teams_db[i].team_id)

====
